---- MODULE Spec2Model ----
(***************************************************************************)
(* Provider / registry and dispatch protocol of qruise-pasquans-interface. *)
(*                                                                         *)
(* One provider is built from the list of backend classes returned by its  *)
(* _get_simulators(); afterwards callers use backends(), get_backend() and *)
(* the dispatch function simulate().  Every call is synchronous, so each   *)
(* call is one action and its outcome is recorded in `last`.               *)
(*                                                                         *)
(* Python values are modelled as follows:                                  *)
(*   - a dict that is iterated (the provider's _backends) is a sequence of *)
(*     [key, value] records in insertion order;                            *)
(*   - a result mapping is a function from key strings to values;          *)
(*   - an exception is [type, args]; str(e) is Str(e);                     *)
(*   - a float is written in tenths (0.5 is 5);                            *)
(*   - a pint Quantity is [kind, unit, len]; a raw list is kind "list".    *)
(***************************************************************************)
EXTENDS Integers, Sequences, FiniteSets, TLC

\* Longest list of backend classes a provider's _get_simulators returns.
MaxSimulators == 3

\* Largest magnitude and longest array of the quantities that are converted.
MaxMagnitude == 3

MaxArrayLen == 3

None == "None"

\* Python truthiness of a name argument (`if name:`).
Truthy(name) == name # None /\ name # ""

NoExc == [type |-> "None", args |-> <<>>]

Exception(type, args) == [type |-> type, args |-> args]

\* str(e): the sole argument of the exception, or "" when it has none.
Str(e) == IF Len(e.args) = 0 THEN "" ELSE e.args[1]

Return(v) == [outcome |-> "return", value |-> v, exc |-> NoExc]

Raise(e) == [outcome |-> "raise", value |-> None, exc |-> e]

(***************************************************************************)
(* dict operations                                                         *)
(***************************************************************************)
EmptyDict == <<>>

dict_keys(d) == {d[i].key : i \in 1..Len(d)}

dict_contains(d, k) == \E i \in 1..Len(d) : d[i].key = k

dict_getitem(d, k) == d[CHOOSE i \in 1..Len(d) : d[i].key = k].value

dict_values(d) == [i \in 1..Len(d) |-> d[i].value]

\* d[k] = v gone wrong: a list append, and an insert that keeps the old value.
dict_setitem_append(d, k, v) == Append(d, [key |-> k, value |-> v])

dict_setitem_keep(d, k, v) ==
    IF dict_contains(d, k) THEN d ELSE Append(d, [key |-> k, value |-> v])

\* d[k] = v on an insertion-ordered dict: an existing key keeps its place.
dict_setitem(d, k, v) ==
    IF dict_contains(d, k)
    THEN [i \in 1..Len(d) |-> IF d[i].key = k THEN [key |-> k, value |-> v] ELSE d[i]]
    ELSE Append(d, [key |-> k, value |-> v])

\* result[k] = v on a result mapping.
MapSet(m, k, v) == [x \in (DOMAIN m) \cup {k} |-> IF x = k THEN v ELSE m[x]]

EmptyMap == [x \in {} |-> x]

(***************************************************************************)
(* Backend classes                                                         *)
(***************************************************************************)
\* LegacyMockSimulator is the MockSimulator of the qruise_pasquans_interface
\* package: another class whose instances are named "mock_simulator".
Classes ==
    {"MockSimulator", "MockSimulatorV2", "CustomSimulator", "LegacyMockSimulator",
     "SimulatorBackend"}

\* An instance: its class, its identity (the position of its constructor
\* call), the name and the options its constructor stored.
Instance(cls, id, name, options) ==
    [cls |-> cls, id |-> id, name |-> name, options |-> options]

\* MockSimulator(provider=self): no extra keyword arguments are captured.
MockSimulator_init(id) == Return(Instance("MockSimulator", id, "mock_simulator", "{}"))

MockSimulatorV2_init(id) ==
    Return(Instance("MockSimulatorV2", id, "mock_simulator_v2", "{}"))

\* CustomSimulator(**backend_options) captures the provider keyword.
CustomSimulator_init(id) ==
    Return(Instance("CustomSimulator", id, "custom_simulator", "{provider: self}"))

\* LegacyMockSimulator(**backend_options) pops the provider keyword.
LegacyMockSimulator_init(id) ==
    Return(Instance("LegacyMockSimulator", id, "mock_simulator", "{}"))

\* The abstract base class cannot be instantiated.
SimulatorBackend_init(id) ==
    Raise(Exception("TypeError",
        <<"Can't instantiate abstract class SimulatorBackend with abstract methods">>))

\* backend_cls(provider=self)
Construct(cls, id) ==
    CASE cls = "MockSimulator" -> MockSimulator_init(id)
      [] cls = "MockSimulatorV2" -> MockSimulatorV2_init(id)
      [] cls = "CustomSimulator" -> CustomSimulator_init(id)
      [] cls = "LegacyMockSimulator" -> LegacyMockSimulator_init(id)
      [] cls = "SimulatorBackend" -> SimulatorBackend_init(id)

(***************************************************************************)
(* Request values                                                          *)
(***************************************************************************)
RawList(n) == [kind |-> "list", unit |-> "", len |-> n]

Quantity(unit, n) == [kind |-> "Quantity", unit |-> unit, len |-> n]

NoneValue == [kind |-> "None", unit |-> "", len |-> 0]

\* pint: the dimensionality of a unit (radian is dimensionless in pint).
Dimensionality(unit) ==
    CASE unit = "micrometer" -> "[length]"
      [] unit = "meter" -> "[length]"
      [] unit = "MHz" -> "1 / [time]"
      [] unit = "hertz" -> "1 / [time]"
      [] unit = "microsecond" -> "[time]"
      [] unit = "second" -> "[time]"
      [] unit = "rad" -> "dimensionless"
      [] OTHER -> "dimensionless"

\* Quantity.dimensionless
Dimensionless(unit) == Dimensionality(unit) = "dimensionless"

\* The request of tests/test_simulate_function.py::test_simulate.
RawRequest ==
    [lattice_sites |-> RawList(2), global_rabi_frequency |-> RawList(2),
     global_phase |-> RawList(2), global_detuning |-> RawList(2),
     local_detuning |-> RawList(2), init_state |-> RawList(2),
     timegrid |-> RawList(2)]

\* The request of tests/test_simulate_function.py::test_simulate_v2.
QuantityRequest ==
    [lattice_sites |-> Quantity("micrometer", 2),
     global_rabi_frequency |-> Quantity("MHz", 2),
     global_phase |-> Quantity("rad", 2),
     global_detuning |-> Quantity("MHz", 2),
     local_detuning |-> Quantity("MHz", 2),
     init_state |-> RawList(2),
     timegrid |-> Quantity("microsecond", 2)]

QuantityFields ==
    {"lattice_sites", "global_rabi_frequency", "global_phase", "global_detuning",
     "local_detuning", "timegrid"}

\* The unit of another dimension that a caller passes by mistake.
WrongUnit(f) == IF f \in {"lattice_sites", "timegrid"} THEN "MHz" ELSE "micrometer"

\* The requests callers make: the two well-formed ones, the quantity request
\* with one argument of another dimension, the quantity request with a raw
\* list for the lattice, requests whose time grid is longer than the profiles,
\* and a request that leaves init_state and timegrid at their defaults.
Requests ==
    {RawRequest, QuantityRequest}
    \cup {[QuantityRequest EXCEPT ![f] = Quantity(WrongUnit(f), 2)] : f \in QuantityFields}
    \cup {[QuantityRequest EXCEPT !.lattice_sites = RawList(2)],
          [RawRequest EXCEPT !.timegrid = RawList(3)],
          [QuantityRequest EXCEPT !.timegrid = Quantity("microsecond", 3)],
          [RawRequest EXCEPT !.init_state = NoneValue, !.timegrid = NoneValue]}

\* The (request, backend_options) pairs of dispatch calls: every request with
\* empty options, the well-formed ones also with backend_options left at None.
DispatchInputs ==
    {[request |-> r, options |-> "{}"] : r \in Requests}
    \cup {[request |-> r, options |-> None] : r \in {RawRequest, QuantityRequest}}

\* None stands for a call that passes no name.
Names ==
    {"mock_simulator", "mock_simulator_v2", "custom_simulator", "nonexistent",
     "Bull", "", None}

(***************************************************************************)
(* Backend operations                                                      *)
(***************************************************************************)
\* type(x).__name__ of a request value that is no Quantity.
TypeName(v) == IF v.kind = "None" THEN "NoneType" ELSE "list"

AttributeError(v, attr) ==
    Exception("AttributeError",
        <<"'" \o TypeName(v) \o "' object has no attribute '" \o attr \o "'">>)

\* `assert q.dimensionality == ureg.<unit>.dimensionality`: the exception it
\* raises, or NoExc.  A bare assert raises AssertionError without arguments.
AssertDimensionality(v, unit) ==
    IF v.kind # "Quantity" THEN AttributeError(v, "dimensionality")
    ELSE IF Dimensionality(v.unit) # Dimensionality(unit)
         THEN Exception("AssertionError", <<>>)
         ELSE NoExc

\* `assert q.dimensionless`
AssertDimensionless(v) ==
    IF v.kind # "Quantity" THEN AttributeError(v, "dimensionless")
    ELSE IF ~Dimensionless(v.unit)
         THEN Exception("AssertionError", <<>>)
         ELSE NoExc

\* The first exception of a sequence of checks, or NoExc.
FirstExc(checks) ==
    IF \E i \in 1..Len(checks) : checks[i] # NoExc
    THEN checks[CHOOSE i \in 1..Len(checks) :
                   /\ checks[i] # NoExc
                   /\ \A j \in 1..(i - 1) : checks[j] = NoExc]
    ELSE NoExc

MockSimulator_simulate(self, req, backend_options) ==
    Return([state_populations |-> <<5, 5>>, backend_options |-> backend_options])

\* The checks with the phase compared against the frequency dimension.
MockSimulatorV2_checks_phase_hertz(req) ==
    << AssertDimensionality(req.lattice_sites, "meter"),
       AssertDimensionality(req.global_rabi_frequency, "hertz"),
       AssertDimensionality(req.global_phase, "hertz"),
       AssertDimensionality(req.global_detuning, "hertz"),
       AssertDimensionality(req.local_detuning, "hertz"),
       AssertDimensionality(req.timegrid, "second") >>

MockSimulatorV2_checks(req) ==
    << AssertDimensionality(req.lattice_sites, "meter"),
       AssertDimensionality(req.global_rabi_frequency, "hertz"),
       AssertDimensionless(req.global_phase),
       AssertDimensionality(req.global_detuning, "hertz"),
       AssertDimensionality(req.local_detuning, "hertz"),
       AssertDimensionality(req.timegrid, "second") >>

MockSimulatorV2_simulate(self, req, backend_options) ==
    LET e == FirstExc(MockSimulatorV2_checks(req)) IN
    IF e # NoExc THEN Raise(e)
    ELSE Return([state_populations |-> <<5, 5>>, backend_options |-> backend_options])

LegacyMockSimulator_simulate(self, req, backend_options) ==
    Return([state_populations |-> <<5, 5>>, backend_options |-> backend_options])

\* The custom backend of tests/test_readme_code.py echoes its own options.
CustomSimulator_simulate(self, req, backend_options) ==
    Return([state_populations |-> <<7, 3>>, backend_options |-> self.options])

\* backend_simulator.simulate(...), dispatched on the instance's class.
Backend_simulate(self, req, backend_options) ==
    CASE self.cls = "MockSimulator" -> MockSimulator_simulate(self, req, backend_options)
      [] self.cls = "MockSimulatorV2" -> MockSimulatorV2_simulate(self, req, backend_options)
      [] self.cls = "CustomSimulator" -> CustomSimulator_simulate(self, req, backend_options)
      [] self.cls = "LegacyMockSimulator" ->
             LegacyMockSimulator_simulate(self, req, backend_options)

MockSimulator_get_backend_information(self) ==
    [name |-> self.name, backend_options |-> self.options]

MockSimulatorV2_get_backend_information(self) ==
    [name |-> self.name, backend_options |-> self.options]

LegacyMockSimulator_get_backend_information(self) ==
    [name |-> self.name, backend_options |-> self.options]

\* custom_parameter = backend_options.get("custom_parameter", 1.0)
CustomSimulator_get_backend_information(self) ==
    [name |-> self.name, custom_parameter |-> 10]

get_backend_information(self) ==
    CASE self.cls = "MockSimulator" -> MockSimulator_get_backend_information(self)
      [] self.cls = "MockSimulatorV2" -> MockSimulatorV2_get_backend_information(self)
      [] self.cls = "CustomSimulator" -> CustomSimulator_get_backend_information(self)
      [] self.cls = "LegacyMockSimulator" -> LegacyMockSimulator_get_backend_information(self)

(***************************************************************************)
(* PasquansProvider                                                        *)
(***************************************************************************)
\* _get_backend_instance without the try block: the constructor's own
\* exception leaves it.
_get_backend_instance_unwrapped(backend_cls, id) == Construct(backend_cls, id)

\* _get_backend_instance: any constructor failure becomes an ImportError
\* naming the class and the original error.
_get_backend_instance(backend_cls, id) ==
    LET r == Construct(backend_cls, id) IN
    IF r.outcome = "raise"
    THEN Raise(Exception("ImportError",
             <<"Backend " \o backend_cls \o " could not be instantiated: " \o Str(r.exc)>>))
    ELSE r

\* The loop with a failing class skipped instead of ending the construction.
RECURSIVE _verify_backends_loop_skip(_, _, _, _)
_verify_backends_loop_skip(sims, i, ret, log) ==
    IF i > Len(sims)
    THEN [outcome |-> "return", value |-> ret, exc |-> NoExc, log |-> log]
    ELSE LET r == _get_backend_instance(sims[i], i) IN
         IF r.outcome = "raise"
         THEN _verify_backends_loop_skip(sims, i + 1, ret, Append(log, sims[i]))
         ELSE _verify_backends_loop_skip(sims, i + 1,
                  dict_setitem(ret, r.value.name, r.value), Append(log, sims[i]))

\* The loop of _verify_backends from the i-th class on; ret is the dict built
\* so far and log the classes whose constructor has been invoked.
RECURSIVE _verify_backends_loop(_, _, _, _)
_verify_backends_loop(sims, i, ret, log) ==
    IF i > Len(sims)
    THEN [outcome |-> "return", value |-> ret, exc |-> NoExc, log |-> log]
    ELSE LET r == _get_backend_instance(sims[i], i) IN
         IF r.outcome = "raise"
         THEN [outcome |-> "raise", value |-> None, exc |-> r.exc,
               log |-> Append(log, sims[i])]
         ELSE _verify_backends_loop(sims, i + 1,
                  dict_setitem(ret, r.value.name, r.value), Append(log, sims[i]))

_verify_backends(sims) == _verify_backends_loop(sims, 1, EmptyDict, <<>>)

NotInstalled(name) ==
    Exception("ValueError", <<"The '" \o name \o "' backend is not installed in your system.">>)

\* backends with the failed lookup swallowed: an unknown name yields [].
backends_empty_on_miss(d, name) ==
    IF Truthy(name)
    THEN IF dict_contains(d, name) THEN Return(<<dict_getitem(d, name)>>)
         ELSE Return(<<>>)
    ELSE Return(dict_values(d))

\* backends that builds a new instance of each backend it returns.
backends_reconstruct(d, name) ==
    LET Fresh(inst) == [inst EXCEPT !.id = inst.id + MaxSimulators]
        Rebuilt(seq) == [i \in 1..Len(seq) |-> Fresh(seq[i])] IN
    IF Truthy(name)
    THEN IF dict_contains(d, name) THEN Return(Rebuilt(<<dict_getitem(d, name)>>))
         ELSE Raise(NotInstalled(name))
    ELSE Return(Rebuilt(dict_values(d)))

\* backends(name): every instance, or the one registered under a truthy name.
backends(d, name) ==
    IF Truthy(name)
    THEN IF dict_contains(d, name) THEN Return(<<dict_getitem(d, name)>>)
         ELSE Raise(NotInstalled(name))
    ELSE Return(dict_values(d))

\* get_backend without the more-than-one check.
get_backend_first(d, name) ==
    LET r == backends(d, name) IN
    IF r.outcome = "raise" THEN r
    ELSE IF Len(r.value) = 0
         THEN Raise(Exception("ValueError", <<"No backend matches the criteria">>))
         ELSE Return(r.value[1])

\* get_backend(name): the sole backend backends(name) returns.
get_backend(d, name) ==
    LET r == backends(d, name) IN
    IF r.outcome = "raise" THEN r
    ELSE IF Len(r.value) > 1
         THEN Raise(Exception("ValueError", <<"More than one backend matches the criteria">>))
         ELSE IF Len(r.value) = 0
              THEN Raise(Exception("ValueError", <<"No backend matches the criteria">>))
              ELSE Return(r.value[1])

\* get_backend(name, **kwargs): the keywords are forwarded to backends(),
\* whose signature is backends(self, name=None); binding a keyword it does not
\* have raises TypeError before its body runs.
get_backend_kwargs(d, name, kwargs) ==
    IF kwargs = <<>> THEN get_backend(d, name)
    ELSE Raise(Exception("TypeError",
             <<"PasquansProvider.backends() got an unexpected keyword argument '"
               \o kwargs[1] \o "'">>))

(***************************************************************************)
(* The dispatch function                                                   *)
(***************************************************************************)
\* One backend method invocation made by a dispatch call.
Call(method, self, r) ==
    [method |-> method, inst |-> self, outcome |-> r.outcome, exc |-> r.exc]

Dispatched(r, calls) ==
    [outcome |-> r.outcome, value |-> r.value, exc |-> r.exc, calls |-> calls]

\* Variants of the dispatch function with one step changed:
\*   "reraise"      the except clause re-raises the backend's exception;
\*   "catch_all"    backend resolution is inside the try block;
\*   "else_info"    backend_information is attached only after a success;
\*   "error_always" the "error" entry is written on every path.
simulate_variant(d, req, backend, backend_options, variant) ==
    LET g == get_backend(d, backend) IN
    IF g.outcome = "raise"
    THEN IF variant = "catch_all"
         THEN Dispatched(Return(MapSet(EmptyMap, "error", Str(g.exc))), <<>>)
         ELSE Dispatched(g, <<>>)
    ELSE LET backend_simulator == g.value
             s == Backend_simulate(backend_simulator, req, backend_options)
             result0 == IF s.outcome = "return" THEN s.value
                        ELSE MapSet(EmptyMap, "error", Str(s.exc))
             result == IF variant = "error_always" /\ s.outcome = "return"
                       THEN MapSet(result0, "error", "") ELSE result0
             info == get_backend_information(backend_simulator)
             calls == << Call("simulate", backend_simulator, s),
                         Call("get_backend_information", backend_simulator, Return(info)) >>
         IN IF variant = "reraise" /\ s.outcome = "raise"
            THEN Dispatched(Raise(s.exc), calls)
            ELSE IF variant = "else_info" /\ s.outcome = "raise"
                 THEN Dispatched(Return(result), <<calls[1]>>)
                 ELSE Dispatched(Return(MapSet(result, "backend_information", info)), calls)

simulate_reraise(d, req, backend, backend_options) ==
    simulate_variant(d, req, backend, backend_options, "reraise")

simulate_catch_all(d, req, backend, backend_options) ==
    simulate_variant(d, req, backend, backend_options, "catch_all")

simulate_else_info(d, req, backend, backend_options) ==
    simulate_variant(d, req, backend, backend_options, "else_info")

simulate_error_always(d, req, backend, backend_options) ==
    simulate_variant(d, req, backend, backend_options, "error_always")

\* The dispatch function with one retry of a failed backend call.
simulate_retry(d, req, backend, backend_options) ==
    LET g == get_backend(d, backend) IN
    IF g.outcome = "raise" THEN Dispatched(g, <<>>)
    ELSE LET backend_simulator == g.value
             s == Backend_simulate(backend_simulator, req, backend_options)
             result == IF s.outcome = "return" THEN s.value
                       ELSE MapSet(EmptyMap, "error", Str(s.exc))
             info == get_backend_information(backend_simulator)
             attempts == IF s.outcome = "raise"
                         THEN << Call("simulate", backend_simulator, s),
                                 Call("simulate", backend_simulator, s) >>
                         ELSE << Call("simulate", backend_simulator, s) >>
         IN Dispatched(Return(MapSet(result, "backend_information", info)),
                Append(attempts,
                       Call("get_backend_information", backend_simulator, Return(info))))

\* simulate(..., backend, backend_options, ..., provider): resolve, run the
\* backend inside try/except Exception, attach backend_information in the
\* finally clause, return the result.
simulate(d, req, backend, backend_options) ==
    LET g == get_backend(d, backend) IN
    IF g.outcome = "raise" THEN Dispatched(g, <<>>)
    ELSE LET backend_simulator == g.value
             s == Backend_simulate(backend_simulator, req, backend_options)
             result == IF s.outcome = "return" THEN s.value
                       ELSE MapSet(EmptyMap, "error", Str(s.exc))
             info == get_backend_information(backend_simulator)
         IN Dispatched(Return(MapSet(result, "backend_information", info)),
                << Call("simulate", backend_simulator, s),
                   Call("get_backend_information", backend_simulator, Return(info)) >>)

(***************************************************************************)
(* The dispatch function over any backend                                  *)
(***************************************************************************)
\* A Python value a backend method returns: a dict with its items, None or a
\* list.
PyDict(items) == [py |-> "dict", items |-> items]

PyNone == [py |-> "NoneType", items |-> EmptyMap]

PyList == [py |-> "list", items |-> EmptyMap]

\* The exception classes `except Exception` catches.
IsException(e) == e.type \notin {"KeyboardInterrupt", "SystemExit", "GeneratorExit"}

\* result[key] = value: the exception the item assignment raises, or NoExc.
SetItemExc(result) ==
    CASE result.py = "dict" -> NoExc
      [] result.py = "NoneType" ->
             Exception("TypeError", <<"'NoneType' object does not support item assignment">>)
      [] result.py = "list" ->
             Exception("TypeError", <<"list indices must be integers or slices, not str">>)

\* One backend method invocation with the arguments it received and the
\* value it returned.
CallWith(method, self, args, r) ==
    [method |-> method, inst |-> self, args |-> args,
     outcome |-> r.outcome, value |-> r.value, exc |-> r.exc]

SimulateArgs(req, backend_options) == [request |-> req, backend_options |-> backend_options]

\* The dispatch function that passes no backend_options on and merges the
\* backend's result into a mapping of its own.
simulate_conduct_rebuilt(d, req, backend, backend_options, s, info) ==
    LET g == get_backend(d, backend) IN
    IF g.outcome = "raise" THEN Dispatched(g, <<>>)
    ELSE LET result == IF s.outcome = "return" /\ s.value.py = "dict"
                       THEN MapSet(s.value.items, "backend", backend)
                       ELSE MapSet(EmptyMap, "error", Str(s.exc))
             calls == << CallWith("simulate", g.value, SimulateArgs(req, None), s),
                         CallWith("get_backend_information", g.value, None, info) >>
         IN IF info.outcome = "raise" THEN Dispatched(Raise(info.exc), calls)
            ELSE Dispatched(Return(MapSet(result, "backend_information", info.value)), calls)

\* simulate(...) when the resolved backend's simulate behaves as s (returns a
\* value or raises) and its get_backend_information as info: result = {};
\* the try block binds result to what simulate returned; `except Exception`
\* writes result["error"]; the finally clause calls get_backend_information
\* and assigns result["backend_information"]; an exception of the finally
\* clause replaces a pending one; a pending one is re-raised after it.
simulate_conduct(d, req, backend, backend_options, s, info) ==
    LET g == get_backend(d, backend) IN
    IF g.outcome = "raise" THEN Dispatched(g, <<>>)
    ELSE LET backend_simulator == g.value
             caught == s.outcome = "raise" /\ IsException(s.exc)
             pending == IF s.outcome = "raise" /\ ~IsException(s.exc) THEN s.exc ELSE NoExc
             result == IF s.outcome = "return" THEN s.value
                       ELSE IF caught THEN PyDict(MapSet(EmptyMap, "error", Str(s.exc)))
                            ELSE PyDict(EmptyMap)
             calls == << CallWith("simulate", backend_simulator,
                                  SimulateArgs(req, backend_options), s),
                         CallWith("get_backend_information", backend_simulator, None, info) >>
         IN IF info.outcome = "raise" THEN Dispatched(Raise(info.exc), calls)
            ELSE IF SetItemExc(result) # NoExc
                 THEN Dispatched(Raise(SetItemExc(result)), calls)
                 ELSE IF pending # NoExc THEN Dispatched(Raise(pending), calls)
                      ELSE Dispatched(
                               Return(MapSet(result.items, "backend_information", info.value)),
                               calls)

(***************************************************************************)
(* State machine                                                           *)
(***************************************************************************)
VARIABLES
    simulators,   \* the classes _get_simulators returns, in order
    phase,        \* "new" before __init__, then "ready" or "failed"
    _backends,    \* the provider's name -> instance dict
    init_exc,     \* the exception __init__ raised, or NoExc
    ctor_log,     \* the classes whose constructor __init__ invoked, in order
    last          \* the last call made on the provider and its outcome

vars == <<simulators, phase, _backends, init_exc, ctor_log, last>>

NoCall ==
    [op |-> "none", name |-> None, request |-> RawRequest, options |-> None,
     outcome |-> "none", value |-> None, exc |-> NoExc, calls |-> <<>>]

SimulatorLists == UNION {[1..n -> Classes] : n \in 0..MaxSimulators}

Init ==
    /\ simulators \in SimulatorLists
    /\ phase = "new"
    /\ _backends = EmptyDict
    /\ init_exc = NoExc
    /\ ctor_log = <<>>
    /\ last = NoCall

\* PasquansProvider.__init__
ProviderInit ==
    /\ phase = "new"
    /\ LET r == _verify_backends(simulators) IN
       /\ phase' = IF r.outcome = "return" THEN "ready" ELSE "failed"
       /\ _backends' = IF r.outcome = "return" THEN r.value ELSE EmptyDict
       /\ init_exc' = r.exc
       /\ ctor_log' = r.log
    /\ UNCHANGED <<simulators, last>>

\* provider.backends(name)
CallBackends(name) ==
    /\ phase = "ready"
    /\ LET r == backends(_backends, name) IN
       last' = [NoCall EXCEPT !.op = "backends", !.name = name,
                   !.outcome = r.outcome, !.value = r.value, !.exc = r.exc]
    /\ UNCHANGED <<simulators, phase, _backends, init_exc, ctor_log>>

\* provider.get_backend(name)
CallGetBackend(name) ==
    /\ phase = "ready"
    /\ LET r == get_backend(_backends, name) IN
       last' = [NoCall EXCEPT !.op = "get_backend", !.name = name,
                   !.outcome = r.outcome, !.value = r.value, !.exc = r.exc]
    /\ UNCHANGED <<simulators, phase, _backends, init_exc, ctor_log>>

\* A dispatch whose backend keeps the options of the call on the instance.
CallSimulate_stores_options(name, req, options) ==
    /\ phase = "ready"
    /\ LET r == simulate(_backends, req, name, options) IN
       /\ last' = [op |-> "simulate", name |-> name, request |-> req,
                   options |-> options, outcome |-> r.outcome, value |-> r.value,
                   exc |-> r.exc, calls |-> r.calls]
       /\ _backends' =
              [i \in 1..Len(_backends) |->
                  IF r.calls # <<>> /\ _backends[i].value = r.calls[1].inst
                  THEN [_backends[i] EXCEPT !.value.options = options]
                  ELSE _backends[i]]
    /\ UNCHANGED <<simulators, phase, init_exc, ctor_log>>

\* simulate(..., backend=name, backend_options=options, provider=provider)
CallSimulate(name, req, options) ==
    /\ phase = "ready"
    /\ LET r == simulate(_backends, req, name, options) IN
       last' = [op |-> "simulate", name |-> name, request |-> req,
                options |-> options, outcome |-> r.outcome, value |-> r.value,
                exc |-> r.exc, calls |-> r.calls]
    /\ UNCHANGED <<simulators, phase, _backends, init_exc, ctor_log>>

\* The defaults of the dispatch function's parameters: backend = "Bull" and
\* provider = MockProvider(), evaluated once, when the function is defined.
DefaultBackend == "Bull"

MockProvider_get_simulators == <<"MockSimulator", "MockSimulatorV2">>

\* A dispatch that builds a MockProvider of its own in every call.
CallSimulateDefault_rebuilds(backend, req, options) ==
    /\ phase = "ready"
    /\ simulators = MockProvider_get_simulators
    /\ LET fresh == _verify_backends(MockProvider_get_simulators)
           r == simulate(fresh.value, req, backend, options) IN
       /\ last' = [op |-> "simulate(provider omitted)", name |-> backend,
                   request |-> req, options |-> options, outcome |-> r.outcome,
                   value |-> r.value, exc |-> r.exc, calls |-> r.calls]
       /\ ctor_log' = ctor_log \o MockProvider_get_simulators
    /\ UNCHANGED <<simulators, phase, _backends, init_exc>>

\* simulate(..., backend=backend, backend_options=options) with the provider
\* argument omitted: the provider of the state is the default MockProvider.
CallSimulateDefault(backend, req, options) ==
    /\ phase = "ready"
    /\ simulators = MockProvider_get_simulators
    /\ LET r == simulate(_backends, req, backend, options) IN
       last' = [op |-> "simulate(provider omitted)", name |-> backend,
                request |-> req, options |-> options, outcome |-> r.outcome,
                value |-> r.value, exc |-> r.exc, calls |-> r.calls]
    /\ UNCHANGED <<simulators, phase, _backends, init_exc, ctor_log>>

\* get_backend_information() called on the i-th registered backend.
CallGetBackendInformation(i) ==
    /\ phase = "ready"
    /\ i \in 1..Len(_backends)
    /\ last' = [NoCall EXCEPT !.op = "get_backend_information",
                   !.name = _backends[i].key, !.outcome = "return",
                   !.value = get_backend_information(_backends[i].value)]
    /\ UNCHANGED <<simulators, phase, _backends, init_exc, ctor_log>>

\* provider.get_backend(name, **kwargs) with one filter keyword
CallGetBackendKwargs(name, kwargs) ==
    /\ phase = "ready"
    /\ LET r == get_backend_kwargs(_backends, name, kwargs) IN
       last' = [NoCall EXCEPT !.op = "get_backend(**kwargs)", !.name = name,
                   !.options = kwargs[1],
                   !.outcome = r.outcome, !.value = r.value, !.exc = r.exc]
    /\ UNCHANGED <<simulators, phase, _backends, init_exc, ctor_log>>

\* A caller's list that is the provider's own collection: removing its first
\* entry removes the entry from the map.
MutateReturnedList_aliased ==
    /\ phase = "ready"
    /\ last.op = "backends"
    /\ last.outcome = "return"
    /\ Len(last.value) > 0
    /\ last' = [last EXCEPT !.op = "mutate_list", !.value = Tail(last.value)]
    /\ _backends' = SelectSeq(_backends, LAMBDA e : e.value # Head(last.value))
    /\ UNCHANGED <<simulators, phase, init_exc, ctor_log>>

\* The caller removes the first entry of the list backends() returned; the
\* list was built by list(...) for this call and is the caller's alone.
MutateReturnedList ==
    /\ phase = "ready"
    /\ last.op = "backends"
    /\ last.outcome = "return"
    /\ Len(last.value) > 0
    /\ last' = [last EXCEPT !.op = "mutate_list", !.value = Tail(last.value)]
    /\ UNCHANGED <<simulators, phase, _backends, init_exc, ctor_log>>

Next ==
    \/ ProviderInit
    \/ \E name \in Names : CallBackends(name)
    \/ \E name \in Names : CallGetBackend(name)
    \/ \E name \in Names \ {None}, c \in DispatchInputs :
           CallSimulate(name, c.request, c.options)
    \/ \E i \in 1..MaxSimulators : CallGetBackendInformation(i)
    \/ MutateReturnedList
    \/ \E name \in {"mock_simulator", "nonexistent", None} :
           CallGetBackendKwargs(name, <<"n_qubits">>)
    \/ \E backend \in {DefaultBackend, "mock_simulator", "mock_simulator_v2"},
          c \in DispatchInputs :
           CallSimulateDefault(backend, c.request, c.options)

Spec == Init /\ [][Next]_vars

(***************************************************************************)
(* Unit conversion                                                         *)
(***************************************************************************)
\* Q_(magnitude, unit): a scalar is an array of shape "scalar" with one entry.
PhysicalQuantity(shape, magnitude, unit) ==
    [shape |-> shape, magnitude |-> magnitude, unit |-> unit]

\* The size of a frequency unit in 1 / second; the radian is dimensionless,
\* so rad/s is 1 / second as well.
UnitFactor(unit) ==
    CASE unit = "MHz" -> 1000000
      [] unit = "kHz" -> 1000
      [] unit = "hertz" -> 1
      [] unit = "rad/s" -> 1

\* A conversion that takes a frequency to an angular frequency with 2 pi
\* (6.283 to three places).
Quantity_to_angular(q, unit) ==
    [q EXCEPT !.unit = unit,
              !.magnitude = [i \in 1..Len(q.magnitude) |->
                  IF unit = "rad/s"
                  THEN ((q.magnitude[i] * UnitFactor(q.unit)) \div 1000) * 6283
                  ELSE (q.magnitude[i] * UnitFactor(q.unit)) \div UnitFactor(unit)]]

\* q.to(unit): element-wise scaling by the ratio of the unit sizes.
Quantity_to(q, unit) ==
    [q EXCEPT !.unit = unit,
              !.magnitude = [i \in 1..Len(q.magnitude) |->
                  (q.magnitude[i] * UnitFactor(q.unit)) \div UnitFactor(unit)]]

Magnitudes == UNION {[1..n -> 1..MaxMagnitude] : n \in 1..MaxArrayLen}

\* The quantities that are converted: scalars and arrays of frequencies.
FrequencyQuantities ==
    {PhysicalQuantity("scalar", <<k>>, u) : k \in 1..MaxMagnitude, u \in {"MHz", "kHz", "hertz"}}
    \cup {PhysicalQuantity("array", m, u) : m \in Magnitudes, u \in {"MHz", "kHz"}}

\* A quantity has been built and no provider is involved.
InitUnits ==
    /\ simulators = <<>>
    /\ phase = "units"
    /\ _backends = EmptyDict
    /\ init_exc = NoExc
    /\ ctor_log = <<>>
    /\ \E q \in FrequencyQuantities :
           last = [NoCall EXCEPT !.op = "Q_", !.outcome = "return", !.value = q]

\* q.to(unit) on the quantity built last; request keeps the source quantity.
ConvertTo(unit) ==
    /\ phase = "units"
    /\ last.op = "Q_"
    /\ last' = [last EXCEPT !.op = "to", !.name = unit, !.request = last.value,
                            !.value = Quantity_to(last.value, unit)]
    /\ UNCHANGED <<simulators, phase, _backends, init_exc, ctor_log>>

NextUnits == \E unit \in {"rad/s", "hertz"} : ConvertTo(unit)

SpecUnits == InitUnits /\ [][NextUnits]_vars

(***************************************************************************)
(* Dispatch to a backend of any conduct                                    *)
(***************************************************************************)
\* An instance of some subclass of SimulatorBackend, named "any_simulator".
AnySimulator == Instance("AnySimulator", 1, "any_simulator", "{}")

\* What a backend's simulate may do in one call.
SimulateConducts ==
    { Return(PyDict(MapSet(EmptyMap, "state_populations", <<5, 5>>))),
      Return(PyDict(MapSet(MapSet(EmptyMap, "state_populations", <<5, 5>>),
                           "backend_information", PyDict(MapSet(EmptyMap, "name", "mine"))))),
      Return(PyNone),
      Return(PyList),
      Raise(Exception("ValueError", <<"bad pulse">>)),
      Raise(Exception("RuntimeError", <<>>)),
      Raise(Exception("KeyboardInterrupt", <<>>)) }

\* What a backend's get_backend_information may do in one call.
InformationConducts ==
    { Return(PyDict(MapSet(EmptyMap, "name", "any_simulator"))),
      Return(PyNone),
      Raise(Exception("RuntimeError", <<"info unavailable">>)) }

AnyInputs ==
    [request : {RawRequest, QuantityRequest}, options : {"{}", None}]

\* A provider constructed over the one backend class.
InitAny ==
    /\ simulators = <<"AnySimulator">>
    /\ phase = "ready"
    /\ _backends = dict_setitem(EmptyDict, "any_simulator", AnySimulator)
    /\ init_exc = NoExc
    /\ ctor_log = <<"AnySimulator">>
    /\ last = NoCall

\* simulate(..., backend=name, backend_options=options, provider=provider)
\* while the backend behaves as s and info.
CallSimulateConduct(name, req, options, s, info) ==
    /\ phase = "ready"
    /\ LET r == simulate_conduct(_backends, req, name, options, s, info) IN
       last' = [op |-> "simulate", name |-> name, request |-> req,
                options |-> options, outcome |-> r.outcome, value |-> r.value,
                exc |-> r.exc, calls |-> r.calls]
    /\ UNCHANGED <<simulators, phase, _backends, init_exc, ctor_log>>

NextAny ==
    \E name \in {"any_simulator", "nonexistent", ""}, c \in AnyInputs,
       s \in SimulateConducts, info \in InformationConducts :
        CallSimulateConduct(name, c.request, c.options, s, info)

SpecAny == InitAny /\ [][NextAny]_vars

(***************************************************************************)
(* Vocabulary of the properties, read off the state                        *)
(***************************************************************************)
\* The name each listed class gives its instances.
NameOf(cls) ==
    CASE cls = "MockSimulator" -> "mock_simulator"
      [] cls = "MockSimulatorV2" -> "mock_simulator_v2"
      [] cls = "CustomSimulator" -> "custom_simulator"
      [] cls = "LegacyMockSimulator" -> "mock_simulator"
      [] OTHER -> "<abstract>"

\* The positions of the registered backends whose name is n.
Matches(n) == {i \in 1..Len(_backends) : _backends[i].value.name = n}

Registered(n) == Matches(n) # {}

RegisteredInstance(n) == _backends[CHOOSE i \in Matches(n) : TRUE].value

\* The positions in the class list whose class names its instances n.
Listed(n) == {i \in 1..Len(simulators) : NameOf(simulators[i]) = n}

LastListed(n) == CHOOSE i \in Listed(n) : \A j \in Listed(n) : j <= i

FirstListed(n) == CHOOSE i \in Listed(n) : \A j \in Listed(n) : i <= j

DuplicateNames ==
    \E i, j \in 1..Len(simulators) :
        i < j /\ NameOf(simulators[i]) = NameOf(simulators[j])

\* A dispatch call whose backend name resolves to exactly one backend.
Resolves(n) == IF Truthy(n) THEN Registered(n) ELSE Len(_backends) = 1

ResolvedInstance(n) == IF Truthy(n) THEN RegisteredInstance(n) ELSE _backends[1].value

\* The last call was a dispatch in which the backend's simulate was invoked.
BackendInvoked ==
    /\ last.op = "simulate"
    /\ Len(last.calls) >= 1
    /\ last.calls[1].method = "simulate"

BackendRaised == BackendInvoked /\ last.calls[1].outcome = "raise"

BackendReturned == BackendInvoked /\ last.calls[1].outcome = "return"

Returned == last.outcome = "return"

Raised == last.outcome = "raise"

NotInstalledMessage(n) == "The '" \o n \o "' backend is not installed in your system."

AmbiguousMessage == "More than one backend matches the criteria"

NoMatchMessage == "No backend matches the criteria"

IsValueError(msg) == Raised /\ last.exc.type = "ValueError" /\ last.exc.args = <<msg>>

(***************************************************************************)
(* Properties                                                              *)
(***************************************************************************)

\* C1: when the resolved backend's simulate raises an exception, the dispatch
\* function returns (does not raise) a mapping whose "error" entry is the
\* string message of that exception.
C1_SoftFail ==
    BackendRaised =>
        /\ Returned
        /\ "error" \in DOMAIN last.value
        /\ last.value["error"] = Str(last.calls[1].exc)

C1_Witness ==
    /\ BackendRaised
    /\ Returned
    /\ last.value["error"] = "'list' object has no attribute 'dimensionality'"

\* C2: when get_backend(backend_name) fails (name not registered, or
\* ambiguous), the dispatch function raises that failure to its caller and
\* invokes neither simulate nor get_backend_information of any backend.
C2_HardFail ==
    (last.op = "simulate" /\ ~Resolves(last.name)) =>
        /\ last.calls = <<>>
        /\ IF Truthy(last.name) THEN IsValueError(NotInstalledMessage(last.name))
           ELSE IF Len(_backends) > 1 THEN IsValueError(AmbiguousMessage)
           ELSE IsValueError(NoMatchMessage)

C2_Witness ==
    /\ last.op = "simulate"
    /\ last.name = "nonexistent"
    /\ Len(_backends) = 2
    /\ Raised
    /\ last.calls = <<>>

\* C3: every mapping the dispatch function returns has a "backend_information"
\* entry equal to get_backend_information() of the backend resolved for the
\* call, whether that backend's simulate succeeded or raised.
C3_BackendInformation ==
    (last.op = "simulate" /\ Returned) =>
        /\ Resolves(last.name)
        /\ "backend_information" \in DOMAIN last.value
        /\ last.value["backend_information"] =
               get_backend_information(ResolvedInstance(last.name))
        /\ last.value["backend_information"]["name"] = ResolvedInstance(last.name).name

C3_Witness ==
    /\ BackendRaised
    /\ Returned
    /\ last.value["backend_information"] =
           [name |-> "mock_simulator_v2", backend_options |-> "{}"]

\* C4: a returned mapping has an "error" key only when the backend's simulate
\* failed, never when it returned normally, and it holds either
\* "state_populations" or "error" but not both.
C4_ErrorOnlyOnFailure ==
    (last.op = "simulate" /\ Returned) =>
        /\ ("error" \in DOMAIN last.value) <=> BackendRaised
        /\ BackendReturned => "error" \notin DOMAIN last.value
        /\ ("state_populations" \in DOMAIN last.value) # ("error" \in DOMAIN last.value)

C4_Witness ==
    /\ BackendReturned
    /\ Returned
    /\ "state_populations" \in DOMAIN last.value
    /\ "error" \notin DOMAIN last.value

\* The dimension the backend contract expects of each quantity argument.
ExpectedDimension(f) ==
    CASE f = "lattice_sites" -> "[length]"
      [] f = "timegrid" -> "[time]"
      [] f = "global_phase" -> "dimensionless"
      [] OTHER -> "1 / [time]"

AllQuantities(req) == \A f \in QuantityFields : req[f].kind = "Quantity"

SameLengths(req) ==
    \A f, g \in {"global_rabi_frequency", "global_phase", "global_detuning", "timegrid"} :
        req[f].len = req[g].len

\* Raw lists throughout, of matching lengths.
WellFormedRaw(req) ==
    /\ \A f \in QuantityFields \cup {"init_state"} : req[f].kind = "list"
    /\ SameLengths(req)

\* Quantities throughout, each of its expected dimension, of matching lengths.
WellDimensioned(req) ==
    /\ AllQuantities(req)
    /\ \A f \in QuantityFields : Dimensionality(req[f].unit) = ExpectedDimension(f)
    /\ SameLengths(req)

\* Quantities throughout, one of them of another dimension than expected.
DimensionMismatch(req) ==
    /\ AllQuantities(req)
    /\ \E f \in QuantityFields : Dimensionality(req[f].unit) # ExpectedDimension(f)

IsMockProvider == simulators = <<"MockSimulator", "MockSimulatorV2">>

\* C5: dispatching to either mock backend of MockProvider with well-formed
\* inputs returns state_populations [0.5, 0.5], no "error" key, the
\* backend_options passed to the call, and backend_information.name equal to
\* the requested backend name.
C5_MockSuccess ==
    (/\ last.op = "simulate"
     /\ IsMockProvider
     /\ \/ last.name = "mock_simulator" /\ WellFormedRaw(last.request)
        \/ last.name = "mock_simulator_v2" /\ WellDimensioned(last.request)) =>
        /\ Returned
        /\ "error" \notin DOMAIN last.value
        /\ "state_populations" \in DOMAIN last.value
        /\ last.value["state_populations"] = <<5, 5>>
        /\ last.value["backend_options"] = last.options
        /\ last.value["backend_information"]["name"] = last.name

C5_Witness ==
    /\ last.op = "simulate"
    /\ IsMockProvider
    /\ last.name = "mock_simulator_v2"
    /\ last.request = QuantityRequest
    /\ last.options = "{}"
    /\ Returned
    /\ last.value["state_populations"] = <<5, 5>>

\* C6: when a backend raises during simulate because of a dimensional
\* mismatch, the dispatch function returns a mapping whose "error" entry is a
\* non-empty string and whose "backend_information" names that backend.
C6_MismatchErrorNonEmpty ==
    (/\ last.op = "simulate"
     /\ Resolves(last.name)
     /\ BackendRaised
     /\ DimensionMismatch(last.request)) =>
        /\ Returned
        /\ "error" \in DOMAIN last.value
        /\ last.value["error"] # ""
        /\ last.value["backend_information"]["name"] = last.calls[1].inst.name

\* C7: for every name n, get_backend(n) returns the registered
\* instance named n when exactly one backend matches n, fails with a
\* not-found condition when none matches, and fails with an ambiguous-match
\* condition when more than one matches.
C7_Original ==
    (last.op = "get_backend" /\ last.name # None) =>
        /\ Cardinality(Matches(last.name)) = 1 =>
               Returned /\ last.value = RegisteredInstance(last.name)
                        /\ last.value.name = last.name
        /\ Cardinality(Matches(last.name)) = 0 =>
               \/ IsValueError(NotInstalledMessage(last.name))
               \/ IsValueError(NoMatchMessage)
        /\ Cardinality(Matches(last.name)) > 1 => IsValueError(AmbiguousMessage)

\* What get_backend does hold of: for every non-empty name n it returns the
\* registered instance named n when n is registered and fails with the
\* not-installed ValueError naming n otherwise; the ambiguous-match failure
\* occurs exactly when the name is empty or absent and the provider holds
\* more than one backend.
C7_GetBackend ==
    last.op = "get_backend" =>
        /\ Cardinality(Matches(last.name)) <= 1
        /\ (Truthy(last.name) /\ Registered(last.name)) =>
               Returned /\ last.value = RegisteredInstance(last.name)
                        /\ last.value.name = last.name
        /\ (Truthy(last.name) /\ ~Registered(last.name)) =>
               IsValueError(NotInstalledMessage(last.name))
        /\ IsValueError(AmbiguousMessage) <=>
               (~Truthy(last.name) /\ Len(_backends) > 1)

C7_Witness ==
    /\ last.op = "get_backend"
    /\ last.name = "mock_simulator"
    /\ Returned
    /\ last.value.name = "mock_simulator"
    /\ Len(_backends) = 3

\* C8: backends(name) called with a name returns exactly the
\* instance registered under it, or fails with a ValueError naming the key
\* when the name is not registered; it never returns an empty sequence.
C8_Original ==
    (last.op = "backends" /\ last.name # None) =>
        /\ Registered(last.name) =>
               Returned /\ last.value = <<RegisteredInstance(last.name)>>
        /\ ~Registered(last.name) => IsValueError(NotInstalledMessage(last.name))
        /\ ~(Returned /\ Len(last.value) = 0)

\* What backends does hold of: called with a non-empty name it returns exactly
\* the instance registered under it, or fails with the ValueError naming the
\* key when the name is not registered; it never returns an empty sequence
\* for a non-empty name.
C8_Backends ==
    (last.op = "backends" /\ Truthy(last.name)) =>
        /\ Registered(last.name) =>
               Returned /\ last.value = <<RegisteredInstance(last.name)>>
        /\ ~Registered(last.name) => IsValueError(NotInstalledMessage(last.name))
        /\ ~(Returned /\ Len(last.value) = 0)

C8_Witness ==
    /\ last.op = "backends"
    /\ last.name = "nonexistent"
    /\ Len(_backends) = 2
    /\ IsValueError("The 'nonexistent' backend is not installed in your system.")

\* The names the listed constructors give their instances.
ListedNames == {NameOf(simulators[i]) : i \in 1..Len(simulators)}

DistinctNames(seq) ==
    \A i, j \in 1..Len(seq) : i # j => seq[i].name # seq[j].name

\* C9 as stated: backends() with no name returns every registered instance in
\* registration order with pairwise distinct names, one per constructor of
\* _get_simulators and as many as there are constructors.
C9_Original ==
    (last.op = "backends" /\ last.name = None /\ Returned) =>
        /\ DistinctNames(last.value)
        /\ Len(last.value) = Len(simulators)
        /\ \A i \in 1..Len(last.value) :
               last.value[i].cls = simulators[i] /\ last.value[i].id = i

\* C9 amended: backends() with no name returns every registered instance, with
\* pairwise distinct names, one per distinct name among the instances the
\* listed constructors build (the instance of the last constructor building
\* that name), ordered by the first listing of each name; the count equals the
\* number of constructors exactly when those names are pairwise distinct.
C9_BackendsAll ==
    (last.op = "backends" /\ last.name = None) =>
        /\ Returned
        /\ DistinctNames(last.value)
        /\ {last.value[i].name : i \in 1..Len(last.value)} = ListedNames
        /\ \A i \in 1..Len(last.value) :
               /\ last.value[i] = _backends[i].value
               /\ last.value[i].id = LastListed(last.value[i].name)
               /\ last.value[i].cls = simulators[last.value[i].id]
        /\ \A i, j \in 1..Len(last.value) :
               i < j => FirstListed(last.value[i].name) < FirstListed(last.value[j].name)
        /\ (Len(last.value) = Len(simulators)) <=> ~DuplicateNames
        /\ ~DuplicateNames => \A i \in 1..Len(last.value) : last.value[i].id = i

C9_Witness ==
    /\ last.op = "backends"
    /\ last.name = None
    /\ Returned
    /\ simulators = <<"MockSimulator", "MockSimulatorV2", "MockSimulator">>
    /\ Len(last.value) = 2
    /\ last.value[1].id = 3

\* C10: when two listed classes build instances of the same name, provider
\* construction raises no error, the name maps to the instance of the class
\* listed last, and the earlier instance is reachable neither through
\* backends() nor through get_backend().
C10_LastRegisteredWins ==
    /\ phase = "failed" => \E i \in 1..Len(simulators) : simulators[i] = "SimulatorBackend"
    /\ (phase = "ready" /\ DuplicateNames) =>
           /\ init_exc = NoExc
           /\ \A n \in ListedNames :
                  /\ Cardinality(Matches(n)) = 1
                  /\ RegisteredInstance(n).id = LastListed(n)
                  /\ RegisteredInstance(n).cls = simulators[LastListed(n)]
           /\ (last.op = "backends" /\ Returned) =>
                  \A i \in 1..Len(last.value) :
                      last.value[i].id = LastListed(last.value[i].name)
           /\ (last.op = "get_backend" /\ Returned) =>
                  last.value.id = LastListed(last.value.name)
           /\ (last.op = "simulate" /\ BackendInvoked) =>
                  last.calls[1].inst.id = LastListed(last.calls[1].inst.name)

C10_Witness ==
    /\ phase = "ready"
    /\ simulators = <<"MockSimulator", "CustomSimulator", "LegacyMockSimulator">>
    /\ last.op = "get_backend"
    /\ last.name = "mock_simulator"
    /\ Returned
    /\ last.value.id = 3
    /\ last.value.cls = "LegacyMockSimulator"

\* The positions of the listed classes whose constructor raises.
Failing == {i \in 1..Len(simulators) : simulators[i] = "SimulatorBackend"}

FirstFailing == CHOOSE i \in Failing : \A j \in Failing : i <= j

Constructed == phase # "new"

\* C11: when a listed constructor raises, the provider constructor fails with
\* one ImportError whose message names the offending class and the original
\* error; no provider is created and the constructors listed after the
\* failing one are not invoked.
C11_ConstructionFailure ==
    (Constructed /\ Failing # {}) =>
        /\ phase = "failed"
        /\ init_exc.type = "ImportError"
        /\ init_exc.args =
               <<"Backend " \o simulators[FirstFailing]
                 \o " could not be instantiated: "
                 \o "Can't instantiate abstract class SimulatorBackend with abstract methods">>
        /\ ctor_log = SubSeq(simulators, 1, FirstFailing)
        /\ _backends = EmptyDict
        /\ last = NoCall

C11_Witness ==
    /\ phase = "failed"
    /\ simulators = <<"MockSimulator", "SimulatorBackend", "MockSimulatorV2">>
    /\ ctor_log = <<"MockSimulator", "SimulatorBackend">>
    /\ init_exc.type = "ImportError"

\* C12: a construction failure of one listed class does not affect the other
\* listed backends: the provider is still created and the other backends are
\* registered.
C12_Original ==
    (Constructed /\ Failing # {}) =>
        /\ phase = "ready"
        /\ \A i \in 1..Len(simulators) :
               i \notin Failing => Registered(NameOf(simulators[i]))

\* C12 amended: a construction failure of one listed class aborts the provider
\* construction as a whole: no backend is registered and no lookup is served,
\* although the classes listed before the failing one were constructed; a
\* provider exists exactly when no listed constructor raises.
C12_FailureAbortsAll ==
    /\ Constructed => (phase = "ready" <=> Failing = {})
    /\ phase = "failed" =>
           /\ Failing # {}
           /\ \A n \in Names : ~Registered(n)
           /\ \A i \in 1..(FirstFailing - 1) : ctor_log[i] = simulators[i]
           /\ Len(ctor_log) = FirstFailing
           /\ last.op = "none"

C12_Witness ==
    /\ phase = "failed"
    /\ simulators = <<"MockSimulator", "MockSimulatorV2", "SimulatorBackend">>
    /\ ctor_log = simulators
    /\ _backends = EmptyDict

\* C13: a simulate call whose time-dependent profiles (global Rabi frequency,
\* global phase, global detuning, time grid) differ in length is reported as
\* an error and never accepted as a successful result.
C13_LengthMismatchRejected ==
    (/\ last.op = "simulate"
     /\ Resolves(last.name)
     /\ ~SameLengths(last.request)) =>
        /\ Returned
        /\ "error" \in DOMAIN last.value
        /\ "state_populations" \notin DOMAIN last.value

\* The instance the k-th listed constructor built, and the information it
\* gave right after construction.
InstanceAtConstruction(k) == Construct(simulators[k], k).value

InfoAtConstruction(k) == get_backend_information(InstanceAtConstruction(k))

\* C14: get_backend_information() of a backend instance returns the same
\* mapping at every point of any sequence of simulate and
\* get_backend_information calls; neither operation changes the name or the
\* options captured at construction.
C14_InformationStable ==
    phase = "ready" =>
        /\ \A i \in 1..Len(_backends) :
               /\ _backends[i].value = InstanceAtConstruction(_backends[i].value.id)
               /\ get_backend_information(_backends[i].value) =
                      InfoAtConstruction(_backends[i].value.id)
        /\ last.op = "get_backend_information" =>
               last.value = InfoAtConstruction(RegisteredInstance(last.name).id)
        /\ (last.op = "simulate" /\ Returned) =>
               last.value["backend_information"] =
                   InfoAtConstruction(last.calls[1].inst.id)

C14_Witness ==
    /\ last.op = "get_backend_information"
    /\ last.name = "custom_simulator"
    /\ last.value = [name |-> "custom_simulator", custom_parameter |-> 10]
    /\ Len(_backends) = 3

\* C15: converting 1 MHz to rad/s yields 1e6 rad/s and converting an array of
\* k MHz yields k * 1e6 rad/s element-wise: a linear scaling by 1e6 with no
\* factor of 2 pi.
C15_MHzToRadPerSecond ==
    (last.op = "to" /\ last.request.unit = "MHz" /\ last.name = "rad/s") =>
        /\ last.value.unit = "rad/s"
        /\ last.value.shape = last.request.shape
        /\ Len(last.value.magnitude) = Len(last.request.magnitude)
        /\ \A i \in 1..Len(last.value.magnitude) :
               last.value.magnitude[i] = last.request.magnitude[i] * 1000000

C15_Witness ==
    /\ last.op = "to"
    /\ last.request = PhysicalQuantity("array", <<1, 2, 3>>, "MHz")
    /\ last.name = "rad/s"
    /\ last.value.magnitude = <<1000000, 2000000, 3000000>>

\* C16: the provider's name -> instance map is written once, by the provider's
\* construction, and no later operation changes it: backends(), backends(name),
\* get_backend(), a dispatch (successful or failing) and a modification of the
\* list backends() returned all leave the same keys bound to the same
\* instances.
C16_MapWrittenOnce ==
    [][/\ _backends' # _backends => (phase = "new" /\ phase' = "ready")
       /\ phase = "ready" => (_backends' = _backends /\ phase' = "ready")]_vars

C16_Witness ==
    /\ last.op = "mutate_list"
    /\ Len(_backends) = 3
    /\ Len(last.value) = 2
    /\ dict_values(_backends) # last.value

\* The instances the map holds.
RegisteredInstances == {_backends[i].value : i \in 1..Len(_backends)}

\* C17: a provider's construction invokes each listed constructor exactly once,
\* in list order, with the provider as the provider argument; no later
\* operation constructs a backend, so every lookup and every dispatch gets the
\* instance built at construction.
C17_ConstructedOnce ==
    /\ Constructed =>
           /\ Len(ctor_log) <= Len(simulators)
           /\ \A i \in 1..Len(ctor_log) : ctor_log[i] = simulators[i]
    /\ phase = "ready" =>
           /\ ctor_log = simulators
           /\ \A inst \in RegisteredInstances :
                  /\ inst = Construct(simulators[inst.id], inst.id).value
                  /\ inst.cls = "CustomSimulator" => inst.options = "{provider: self}"
           /\ (last.op = "backends" /\ Returned) =>
                  \A i \in 1..Len(last.value) : last.value[i] \in RegisteredInstances
           /\ (last.op = "backends" /\ Returned /\ Truthy(last.name)) =>
                  last.value = <<RegisteredInstance(last.name)>>
           /\ (last.op = "get_backend" /\ Returned) =>
                  last.value = ResolvedInstance(last.name)
           /\ last.op = "simulate" =>
                  \A i \in 1..Len(last.calls) :
                      last.calls[i].inst = ResolvedInstance(last.name)

C17_Witness ==
    /\ phase = "ready"
    /\ simulators = <<"MockSimulator", "CustomSimulator", "MockSimulatorV2">>
    /\ ctor_log = simulators
    /\ last.op = "get_backend"
    /\ last.name = "custom_simulator"
    /\ Returned
    /\ last.value = Construct("CustomSimulator", 2).value

\* C18: MockSimulatorV2.simulate checks the dimensionality of each of the six
\* arguments against its expected dimension; when one mismatches it fails with
\* a descriptive error before anything is converted or computed, and it
\* returns a result only when all six checks pass.
C18_DescriptiveMismatchError ==
    (/\ BackendInvoked
     /\ last.calls[1].inst.cls = "MockSimulatorV2"
     /\ AllQuantities(last.request)) =>
        /\ DimensionMismatch(last.request) =>
               /\ BackendRaised
               /\ Str(last.calls[1].exc) # ""
        /\ BackendReturned =>
               \A f \in QuantityFields :
                   Dimensionality(last.request[f].unit) = ExpectedDimension(f)

\* C19: get_backend(name, **filters) with filter keyword arguments applies
\* them after the name lookup and either returns the sole matching backend or
\* fails with the no-match or the ambiguous-match ValueError; it has no other
\* outcome.
C19_FilteredLookup ==
    last.op = "get_backend(**kwargs)" =>
        \/ Returned /\ last.value \in RegisteredInstances
        \/ IsValueError(NoMatchMessage)
        \/ IsValueError(AmbiguousMessage)
        \/ IsValueError(NotInstalledMessage(last.name))

\* C20: in one dispatch call whose backend resolves, the backend's simulate is
\* invoked exactly once (no retry after a failure) and get_backend_information
\* exactly once, after simulate has returned or raised and before the
\* dispatch function returns.
C20_CallOrder ==
    (last.op = "simulate" /\ Resolves(last.name)) =>
        /\ Len(last.calls) = 2
        /\ last.calls[1].method = "simulate"
        /\ last.calls[1].outcome \in {"return", "raise"}
        /\ last.calls[2].method = "get_backend_information"
        /\ last.calls[2].outcome = "return"
        /\ last.calls[1].inst = ResolvedInstance(last.name)
        /\ last.calls[2].inst = ResolvedInstance(last.name)
        /\ Returned
        /\ last.value["backend_information"] =
               get_backend_information(ResolvedInstance(last.name))

C20_Witness ==
    /\ last.op = "simulate"
    /\ last.name = "mock_simulator_v2"
    /\ Resolves(last.name)
    /\ Len(last.calls) = 2
    /\ last.calls[1].method = "simulate"
    /\ last.calls[1].outcome = "raise"
    /\ last.calls[2].method = "get_backend_information"
    /\ Returned

\* C21: the dispatch function raises to its caller only when backend
\* resolution fails: once get_backend has returned a backend, the call returns
\* a mapping, whatever the backend's simulate does (raises any exception or
\* returns any value) and whatever get_backend_information does.
C21_OnlyResolutionRaises ==
    (last.op = "simulate" /\ Len(last.calls) > 0) => Returned

\* C22: on a successful dispatch the eight request fields reach the resolved
\* backend's simulate unchanged, and the returned mapping is what that
\* simulate returned with the one key "backend_information" set, overriding
\* an entry of that name; no other key is added, removed or changed.
C22_ForwardedAndFramed ==
    (/\ last.op = "simulate"
     /\ Len(last.calls) > 0
     /\ last.calls[1].outcome = "return"
     /\ Returned) =>
        LET returned == last.calls[1].value.items IN
        /\ last.calls[1].method = "simulate"
        /\ last.calls[1].inst = ResolvedInstance(last.name)
        /\ last.calls[1].args = SimulateArgs(last.request, last.options)
        /\ DOMAIN last.value = (DOMAIN returned) \cup {"backend_information"}
        /\ last.value["backend_information"] = last.calls[2].value
        /\ \A k \in (DOMAIN returned) \ {"backend_information"} :
               last.value[k] = returned[k]

C22_Witness ==
    /\ last.op = "simulate"
    /\ last.name = "any_simulator"
    /\ last.request = QuantityRequest
    /\ last.options = "{}"
    /\ Returned
    /\ last.calls[1].outcome = "return"
    /\ "backend_information" \in DOMAIN last.calls[1].value.items
    /\ last.calls[1].value.items["backend_information"] # last.value["backend_information"]
    /\ last.value["state_populations"] = <<5, 5>>

C24_DefaultCallFails ==
    last.op = "simulate(provider omitted)" =>
        /\ dict_keys(_backends) = {"mock_simulator", "mock_simulator_v2"}
        /\ DefaultBackend \notin dict_keys(_backends)
        /\ last.name = DefaultBackend =>
               /\ IsValueError(NotInstalledMessage("Bull"))
               /\ last.calls = <<>>
        /\ ctor_log = MockProvider_get_simulators
        /\ \A i \in 1..Len(last.calls) :
               /\ last.calls[i].inst = RegisteredInstance(last.name)
               /\ last.calls[i].inst = InstanceAtConstruction(last.calls[i].inst.id)

C24_Witness ==
    /\ last.op = "simulate(provider omitted)"
    /\ last.name = DefaultBackend
    /\ last.request = RawRequest
    /\ last.options = None
    /\ IsValueError("The 'Bull' backend is not installed in your system.")

====
